---- MODULE Spec2Model ----
(***************************************************************************)
(* A* search over an ESDF clearance grid with a clearance-derived robot    *)
(* footprint (src/demo01/scripts/publish_node.py).                         *)
(*                                                                         *)
(* Cells are 0-based <<x, y>> pairs as in the source; a grid is a sequence *)
(* of rows, so the source's esdf_map[x][y] is esdf_map[x + 1][y + 1] here. *)
(* Floats are modelled exactly: a footprint dimension is a fraction        *)
(* <<num, den>> with den > 0, a heuristic value sqrt(r) is kept as its     *)
(* radicand r, and f = g + sqrt(r) is the pair [g, h] compared exactly.    *)
(*                                                                         *)
(* After astar returns, __main__ assembles one RobotPath message and       *)
(* publishes it once per period until shutdown (lines 124-153).            *)
(***************************************************************************)
EXTENDS Integers, Sequences, FiniteSets, TLC

VARIABLES
    esdf_map,      \* the grid passed to astar
    start, goal,   \* the cells passed to astar
    MIN_WIDTH, MAX_WIDTH, MIN_LENGTH, MAX_LENGTH,   \* module globals, line 21-22
    MAX_ESDF,      \* module global, line 23: maximum of the module-level map
    pc,            \* "call", "loop", "expand", "returned", "raised" in astar;
                   \* "spin", "shutdown" in the publishing loop
    nodes,         \* every Node created so far, in creation order
    open_list,     \* heapq array of indices into nodes
    closed_list,   \* set of cells
    node_sizes,    \* cell -> <<width, length>>
    current_node,  \* index into nodes of the node popped last (0: none yet)
    dir,           \* position in directions of the neighbour handled next
    result,        \* what astar returned or raised
    robot_path,    \* the RobotPath message of line 124
    log,           \* what rospy.loginfo was given, in order
    published,     \* the messages given to pub.publish, in order
    now            \* rospy.Time.now(), in periods of the rate

vars == << esdf_map, start, goal, MIN_WIDTH, MAX_WIDTH, MIN_LENGTH, MAX_LENGTH,
           MAX_ESDF, pc, nodes, open_list, closed_list, node_sizes,
           current_node, dir, result, robot_path, log, published, now >>

inputs == << esdf_map, start, goal, MIN_WIDTH, MAX_WIDTH, MIN_LENGTH,
             MAX_LENGTH, MAX_ESDF >>

outputs == << robot_path, log, published, now >>

----------------------------------------------------------------------------
(* Bounds of the model *)

MaxRows == 2
MaxCols == 2
MaxObstacles == 2
MaxClearance == 3
Margin == 1
MaxSetting == 2
MaxPublishes == 2

----------------------------------------------------------------------------
(* The module-level data, lines 12-23 *)

shipped_map ==
    << << 3, 3, 2, 2, 1, 0, 1 >>,
       << 3, 3, 3, 2, 1, 0, 1 >>,
       << 3, 3, 3, 2, 1, 1, 2 >>,
       << 3, 3, 3, 3, 2, 2, 3 >>,
       << 3, 3, 3, 3, 3, 3, 3 >> >>

ShippedMinWidth == 1
ShippedMaxWidth == 3
ShippedMinLength == 1
ShippedMaxLength == 3

\* parent=None of Node.__init__: no index into nodes
None == 0

RECURSIVE SeqMax(_)
SeqMax(s) ==
    IF Len(s) = 1 THEN s[1]
    ELSE LET m == SeqMax(Tail(s)) IN IF s[1] > m THEN s[1] ELSE m

\* max(max(row) for row in esdf_map), line 23
GridMax(grid) == SeqMax([x \in 1..Len(grid) |-> SeqMax(grid[x])])

----------------------------------------------------------------------------
(* Exact arithmetic standing for the source's floats *)

Frac(n) == << n, 1 >>
FAdd(a, b) == << a[1] * b[2] + b[1] * a[2], a[2] * b[2] >>
FSub(a, b) == << a[1] * b[2] - b[1] * a[2], a[2] * b[2] >>
FMul(a, b) == << a[1] * b[1], a[2] * b[2] >>
FLeq(a, b) == a[1] * b[2] <= b[1] * a[2]
FEq(a, b) == a[1] * b[2] = b[1] * a[2]
FMax(a, b) == IF FLeq(b, a) THEN a ELSE b
FHalf(a) == << a[1], 2 * a[2] >>

\* sqrt(a) < sqrt(b) + d for naturals a, b and an integer d
SqrtLess(a, b, d) ==
    IF d >= 0
    THEN LET k == a - b - d * d
         IN  k < 0 \/ k * k < 4 * d * d * b
    ELSE LET m == b - a - d * d
         IN  m > 0 /\ 4 * d * d * a < m * m

\* f1 < f2 where f = g + sqrt(h)
FLess(f1, f2) == SqrtLess(f1.h, f2.h, f2.g - f1.g)

----------------------------------------------------------------------------
(* Node, lines 26-36 *)

\* Node.__init__ storing its coordinates the wrong way round
Node_transposed(x, y, g, h, parent) ==
    [x |-> y, y |-> x, g |-> g, h |-> h, f |-> [g |-> g, h |-> h],
     parent |-> parent]

\* Node.__init__ dropping its parent argument: every node is a root
Node_parentless(x, y, g, h, parent) ==
    [x |-> x, y |-> y, g |-> g, h |-> h, f |-> [g |-> g, h |-> h],
     parent |-> None]

Node(x, y, g, h, parent) ==
    [x |-> x, y |-> y, g |-> g, h |-> h, f |-> [g |-> g, h |-> h],
     parent |-> parent]

\* Node.__lt__ on the nodes ns[i] and ns[j]
NodeLess(ns, i, j) == FLess(ns[i].f, ns[j].f)

\* heuristic without its square root: the squared distance taken as the
\* estimate, so the radicand standing for it is its square
heuristic_squared(a, b) ==
    LET d == (a[1] - b[1]) * (a[1] - b[1]) + (a[2] - b[2]) * (a[2] - b[2])
    IN  d * d

\* The radicand of sqrt((a0 - b0)^2 + (a1 - b1)^2), lines 98-99
heuristic(a, b) == (a[1] - b[1]) * (a[1] - b[1]) + (a[2] - b[2]) * (a[2] - b[2])

----------------------------------------------------------------------------
(* Footprint and collision test, lines 39-51 *)

adjust_robot_size(esdf_value, minw, maxw, minl, maxl, maxesdf) ==
    LET ratio  == << esdf_value, maxesdf >>
        width  == FAdd(Frac(minw), FMul(FSub(Frac(1), ratio), Frac(maxw - minw)))
        length == FAdd(Frac(minl), FMul(ratio, Frac(maxl - minl)))
    IN  << width, length >>

\* is_collision_free comparing the clearance with length / 2 alone
is_collision_free_length(x, y, width, length, grid) ==
    LET rows == Len(grid)
        cols == Len(grid[1])
    IN  IF x < 0 \/ x >= rows \/ y < 0 \/ y >= cols
        THEN FALSE
        ELSE FLeq(FHalf(length), Frac(grid[x + 1][y + 1]))

is_collision_free(x, y, width, length, grid) ==
    LET rows == Len(grid)
        cols == Len(grid[1])
    IN  IF x < 0 \/ x >= rows \/ y < 0 \/ y >= cols
        THEN FALSE
        ELSE FLeq(FMax(FHalf(width), FHalf(length)), Frac(grid[x + 1][y + 1]))

----------------------------------------------------------------------------
(* heapq on a sequence of node indices; positions are 0-based as in heapq *)

RECURSIVE siftdown(_, _, _, _, _)
siftdown(heap, newitem, startpos, pos, ns) ==
    IF pos > startpos
    THEN LET parentpos == (pos - 1) \div 2
             parent    == heap[parentpos + 1]
         IN  IF NodeLess(ns, newitem, parent)
             THEN siftdown([heap EXCEPT ![pos + 1] = parent], newitem,
                           startpos, parentpos, ns)
             ELSE [heap EXCEPT ![pos + 1] = newitem]
    ELSE [heap EXCEPT ![pos + 1] = newitem]

RECURSIVE siftup(_, _, _, _, _)
siftup(heap, newitem, startpos, pos, ns) ==
    LET endpos   == Len(heap)
        leftpos  == 2 * pos + 1
        rightpos == leftpos + 1
    IN  IF leftpos < endpos
        THEN LET childpos ==
                     IF rightpos < endpos
                        /\ ~NodeLess(ns, heap[leftpos + 1], heap[rightpos + 1])
                     THEN rightpos ELSE leftpos
             IN  siftup([heap EXCEPT ![pos + 1] = heap[childpos + 1]], newitem,
                        startpos, childpos, ns)
        ELSE siftdown([heap EXCEPT ![pos + 1] = newitem], newitem, startpos,
                      pos, ns)

heappush(heap, item, ns) ==
    siftdown(Append(heap, item), item, 0, Len(heap), ns)

\* heappop replaced by a read of open_list[0]: the item stays in the heap
heappop_peek(heap, ns) == [item |-> heap[1], heap |-> heap]

\* heappop of a non-empty heap: the item returned and the heap left
heappop(heap, ns) ==
    LET lastelt == heap[Len(heap)]
        rest    == SubSeq(heap, 1, Len(heap) - 1)
    IN  IF rest = << >>
        THEN [item |-> lastelt, heap |-> rest]
        ELSE [item |-> rest[1], heap |-> siftup(rest, lastelt, 0, 0, ns)]

----------------------------------------------------------------------------
(* reconstruct_path, lines 102-107 *)

\* reconstruct_path looping on node.parent: the start node is left out
RECURSIVE reconstruct_path_while_parent(_, _)
reconstruct_path_while_parent(ns, node) ==
    IF ns[node].parent = None THEN << >>
    ELSE Append(reconstruct_path_while_parent(ns, ns[node].parent),
                << ns[node].x, ns[node].y >>)

\* reconstruct_path without the final reversal (path[::-1]): goal first
RECURSIVE reconstruct_path_unreversed(_, _)
reconstruct_path_unreversed(ns, node) ==
    IF node = None THEN << >>
    ELSE << << ns[node].x, ns[node].y >> >>
             \o reconstruct_path_unreversed(ns, ns[node].parent)

RECURSIVE reconstruct_path(_, _)
reconstruct_path(ns, node) ==
    IF node = None THEN << >>
    ELSE Append(reconstruct_path(ns, ns[node].parent),
                << ns[node].x, ns[node].y >>)

----------------------------------------------------------------------------
(* astar, lines 53-95 *)

\* directions with a diagonal offset in place of (0, 1)
directions_diagonal == << << -1, 0 >>, << 1, 0 >>, << 0, -1 >>, << 1, 1 >> >>

directions == << << -1, 0 >>, << 1, 0 >>, << 0, -1 >>, << 0, 1 >> >>

\* Python's list indexing: an index in -len .. len-1 is valid, negative ones
\* count from the end
IndexValid(len, i) == -len <= i /\ i < len
IndexPos(len, i) == IF i < 0 THEN i + len ELSE i

NoResult == [kind |-> "none", path |-> << >>]

\* RobotPath(): a message with no states
RobotPath == [states |-> << >>]

\* astar applying the feasibility test to an in-grid start: a start that
\* fails it ends the search at once with no path
Begin_checks_start ==
    /\ pc = "call"
    /\ LET start_node == Node(start[1], start[2], 0, heuristic(start, goal), None)
           size == adjust_robot_size(esdf_map[start[1] + 1][start[2] + 1],
                       MIN_WIDTH, MAX_WIDTH, MIN_LENGTH, MAX_LENGTH, MAX_ESDF)
       IN  /\ nodes' = << start_node >>
           /\ closed_list' = {}
           /\ node_sizes' = (start :> size)
           /\ IF is_collision_free(start[1], start[2], size[1], size[2], esdf_map)
              THEN /\ pc' = "loop"
                   /\ result' = NoResult
                   /\ open_list' = heappush(<< >>, 1, << start_node >>)
              ELSE /\ pc' = "returned"
                   /\ result' = [kind |-> "nopath", path |-> << >>]
                   /\ open_list' = << >>
    /\ UNCHANGED << inputs, outputs, current_node, dir >>

\* lines 54-66: the start node is pushed, then the start's footprint recorded
Begin ==
    /\ pc = "call"
    /\ LET start_node == Node(start[1], start[2], 0, heuristic(start, goal), None)
           rows == Len(esdf_map)
       IN  /\ nodes' = << start_node >>
           /\ open_list' = heappush(<< >>, 1, << start_node >>)
           /\ closed_list' = {}
           /\ IF ~IndexValid(rows, start[1])
                 \/ ~IndexValid(Len(esdf_map[IndexPos(rows, start[1]) + 1]), start[2])
              THEN /\ pc' = "raised"
                   /\ result' = [kind |-> "IndexError", path |-> << >>]
                   /\ node_sizes' = << >>
              ELSE LET row == esdf_map[IndexPos(rows, start[1]) + 1]
                       start_esdf_value == row[IndexPos(Len(row), start[2]) + 1]
                   IN  IF MAX_ESDF = 0
                       THEN /\ pc' = "raised"
                            /\ result' = [kind |-> "ZeroDivisionError",
                                          path |-> << >>]
                            /\ node_sizes' = << >>
                       ELSE /\ pc' = "loop"
                            /\ result' = NoResult
                            /\ node_sizes' =
                                 (start :> adjust_robot_size(start_esdf_value,
                                      MIN_WIDTH, MAX_WIDTH, MIN_LENGTH,
                                      MAX_LENGTH, MAX_ESDF))
    /\ UNCHANGED << inputs, outputs, current_node, dir >>

\* lines 68-75: pop the least node; return the path at the goal, else close it
Pop ==
    /\ pc = "loop"
    /\ open_list # << >>
    /\ LET popped == heappop(open_list, nodes)
           cur    == popped.item
       IN  /\ open_list' = popped.heap
           /\ current_node' = cur
           /\ IF << nodes[cur].x, nodes[cur].y >> = goal
              THEN /\ pc' = "returned"
                   /\ result' = [kind |-> "path",
                                 path |-> reconstruct_path(nodes, cur)]
                   /\ UNCHANGED << closed_list, dir >>
              ELSE /\ pc' = "expand"
                   /\ closed_list' = closed_list \cup {<< nodes[cur].x, nodes[cur].y >>}
                   /\ dir' = 1
                   /\ UNCHANGED result
    /\ UNCHANGED << inputs, outputs, nodes, node_sizes >>

\* line 91 without the test of the cell: any frontier node with f <= the
\* candidate's f counts
InOpenNoWorse_any_cell(heap, ns, nx, ny, f) ==
    \E i \in 1..Len(heap) : ~FLess(f, ns[heap[i]].f)

\* line 91: some frontier node of the same cell has f <= the candidate's f
InOpenNoWorse(heap, ns, nx, ny, f) ==
    \E i \in 1..Len(heap) :
        /\ ns[heap[i]].x = nx
        /\ ns[heap[i]].y = ny
        /\ ~FLess(f, ns[heap[i]].f)

\* lines 77-93: one pass of the loop over directions
Neighbor ==
    /\ pc = "expand"
    /\ LET cur  == nodes[current_node]
           nx   == cur.x + directions[dir][1]
           ny   == cur.y + directions[dir][2]
           rows == Len(esdf_map)
           cols == Len(esdf_map[1])
       IN  IF 0 <= nx /\ nx < rows /\ 0 <= ny /\ ny < cols
              /\ << nx, ny >> \notin closed_list
           THEN LET esdf_value == esdf_map[nx + 1][ny + 1]
                    size == adjust_robot_size(esdf_value, MIN_WIDTH, MAX_WIDTH,
                                MIN_LENGTH, MAX_LENGTH, MAX_ESDF)
                IN  IF ~is_collision_free(nx, ny, size[1], size[2], esdf_map)
                    THEN UNCHANGED << nodes, open_list, node_sizes >>
                    ELSE LET g_cost == cur.g + 1
                             h_cost == heuristic(<< nx, ny >>, goal)
                             neighbor_node == Node(nx, ny, g_cost, h_cost,
                                                   current_node)
                             created == Append(nodes, neighbor_node)
                         IN  /\ nodes' = created
                             /\ IF ~InOpenNoWorse(open_list, nodes, nx, ny,
                                                  neighbor_node.f)
                                THEN /\ open_list' = heappush(open_list,
                                                       Len(created), created)
                                     /\ node_sizes' =
                                          (<< nx, ny >> :> size) @@ node_sizes
                                ELSE UNCHANGED << open_list, node_sizes >>
           ELSE UNCHANGED << nodes, open_list, node_sizes >>
    /\ IF dir < Len(directions)
       THEN dir' = dir + 1 /\ pc' = "expand"
       ELSE dir' = dir /\ pc' = "loop"
    /\ UNCHANGED << inputs, outputs, closed_list, current_node, result >>

\* lines 68 and 95: the frontier is empty
Exhausted ==
    /\ pc = "loop"
    /\ open_list = << >>
    /\ pc' = "returned"
    /\ result' = [kind |-> "nopath", path |-> << >>]
    /\ UNCHANGED << inputs, outputs, nodes, open_list, closed_list, node_sizes,
                    current_node, dir >>

----------------------------------------------------------------------------
(* __main__ after the call of astar, lines 124-153 *)

\* format(x, '.2f') of a fraction: the decimal string with two digits after
\* the point nearest to x, a tie going to the even last digit; the string is
\* held as the number of hundredths it spells
format_2f(x) ==
    LET q == (100 * x[1]) \div x[2]
        r == (100 * x[1]) % x[2]
    IN  IF 2 * r > x[2] \/ (2 * r = x[2] /\ q % 2 = 1) THEN q + 1 ELSE q

\* lines 130-138: the RobotState of a path cell
RobotState(node, sizes, stamp) ==
    [stamp       |-> stamp,
     frame_id    |-> "ESDF_MAP",
     position    |-> << node[1], node[2], 0 >>,
     orientation |-> << 0, 0, 0, 1 >>,
     length      |-> format_2f(sizes[node][2]),
     width       |-> format_2f(sizes[node][1])]

\* lines 124-148: the message is built from what astar returned and logged;
\* the no-path outcome is logged and leaves the message without states
Assemble ==
    /\ pc = "returned"
    /\ LET path   == result.path
           states == IF result.kind = "path" /\ path # << >>
                     THEN [ i \in 1..Len(path) |->
                              RobotState(path[i], node_sizes, now) ]
                     ELSE << >>
           said   == IF result.kind = "path" /\ path # << >>
                     THEN << >>
                     ELSE << [text |-> "NO PATH FOUNDED", states |-> << >>] >>
       IN  /\ robot_path' = [states |-> states]
           /\ log' = log \o said \o << [text |-> "RobotPath", states |-> states] >>
    /\ pc' = "spin"
    /\ UNCHANGED << inputs, nodes, open_list, closed_list, node_sizes,
                    current_node, dir, result, published, now >>

\* lines 150-153: one turn of the loop, the message published and one
\* period slept
Publish ==
    /\ pc = "spin"
    /\ Len(published) < MaxPublishes
    /\ published' = Append(published, robot_path)
    /\ now' = now + 1
    /\ UNCHANGED << inputs, pc, nodes, open_list, closed_list, node_sizes,
                    current_node, dir, result, robot_path, log >>

\* line 150: rospy.is_shutdown() has become true
Shutdown ==
    /\ pc = "spin"
    /\ pc' = "shutdown"
    /\ UNCHANGED << inputs, outputs, nodes, open_list, closed_list, node_sizes,
                    current_node, dir, result >>

Next == Begin \/ Pop \/ Neighbor \/ Exhausted \/ Assemble \/ Publish \/ Shutdown

----------------------------------------------------------------------------
(* Inputs *)

Cells(grid) ==
    { << x, y >> : x \in 0..(Len(grid) - 1), y \in 0..(Len(grid[1]) - 1) }

\* A rows x cols grid of clearance base with clearance low at the cells of S
ObstacleGrid(rows, cols, base, low, S) ==
    [x \in 1..rows |->
        [y \in 1..cols |-> IF << x - 1, y - 1 >> \in S THEN low ELSE base]]

ObstacleSets(rows, cols) ==
    { S \in SUBSET ((0..(rows - 1)) \X (0..(cols - 1))) :
        Cardinality(S) <= MaxObstacles }

\* Every grid of at most MaxRows x MaxCols cells of clearance MaxClearance
\* with at most MaxObstacles cells of one lower clearance
SmallGrids ==
    UNION { { ObstacleGrid(rows, cols, MaxClearance, low, S) :
                S \in ObstacleSets(rows, cols), low \in 0..(MaxClearance - 1) } :
            rows \in 1..MaxRows, cols \in 1..MaxCols }

\* A cup open to the left around (2,1), (2,2), and mixed clearances
cup_map ==
    << << 3, 3, 3, 3, 3 >>,
       << 3, 1, 1, 0, 3 >>,
       << 2, 2, 2, 1, 3 >>,
       << 3, 0, 1, 1, 2 >>,
       << 3, 3, 2, 3, 3 >> >>

\* Two posts beside the middle row: the route along the top row reaches the
\* far end of the middle row sooner than the one through the middle
posts_map ==
    << << 0, 3, 2, 3, 3 >>,
       << 3, 1, 3, 0, 2 >>,
       << 2, 3, 3, 3, 3 >> >>

\* Open ground with one post: from the far corner a cell beside the post is
\* reached first by the longer way round and later by the shorter one
revisit_map ==
    << << 0, 3, 3, 3, 3 >>,
       << 3, 3, 3, 0, 3 >>,
       << 3, 3, 3, 3, 3 >> >>

TestGrids == SmallGrids \cup {shipped_map, cup_map, posts_map, revisit_map}

\* lines 21-23 as shipped
ShippedConfig ==
    /\ MIN_WIDTH = ShippedMinWidth /\ MAX_WIDTH = ShippedMaxWidth
    /\ MIN_LENGTH = ShippedMinLength /\ MAX_LENGTH = ShippedMaxLength
    /\ MAX_ESDF = GridMax(shipped_map)

Fresh ==
    /\ pc = "call"
    /\ nodes = << >>
    /\ open_list = << >>
    /\ closed_list = {}
    /\ node_sizes = << >>
    /\ current_node = None
    /\ dir = 1
    /\ result = NoResult
    /\ robot_path = RobotPath
    /\ log = << >>
    /\ published = << >>
    /\ now = 0

\* astar on a test grid with any in-bounds start and goal, shipped settings
Init ==
    /\ ShippedConfig
    /\ esdf_map \in TestGrids
    /\ start \in Cells(esdf_map)
    /\ goal \in Cells(esdf_map)
    /\ Fresh

Spec == Init /\ [][Next]_vars

\* astar called with any start and goal up to Margin cells outside the grid,
\* on grids whose clearances may exceed the shipped maximum
CallerGrids ==
    UNION { { ObstacleGrid(rows, cols, base, 0, S) :
                S \in ObstacleSets(rows, cols), base \in 0..(MaxClearance + 1) } :
            rows \in 1..MaxRows, cols \in 1..MaxCols }

CallerCells(grid) ==
    { << x, y >> : x \in (0 - Margin)..(Len(grid) - 1 + Margin),
                   y \in (0 - Margin)..(Len(grid[1]) - 1 + Margin) }

InitCaller ==
    /\ ShippedConfig
    /\ esdf_map \in CallerGrids
    /\ start \in CallerCells(esdf_map)
    /\ goal \in CallerCells(esdf_map)
    /\ Fresh

SpecCaller == InitCaller /\ [][Next]_vars

\* The program with its settings edited: the map searched is the module-level
\* map (line 122), MAX_ESDF its maximum (line 23), the four bounds any values
\* in 1..MaxSetting
InitConfig ==
    /\ MIN_WIDTH \in 1..MaxSetting /\ MAX_WIDTH \in 1..MaxSetting
    /\ MIN_LENGTH \in 1..MaxSetting /\ MAX_LENGTH \in 1..MaxSetting
    /\ esdf_map \in SmallGrids
                    \cup { ObstacleGrid(rows, cols, 0, 0, {}) :
                             rows \in 1..MaxRows, cols \in 1..MaxCols }
    /\ MAX_ESDF = GridMax(esdf_map)
    /\ start \in Cells(esdf_map)
    /\ goal \in Cells(esdf_map)
    /\ Fresh

SpecConfig == InitConfig /\ [][Next]_vars

----------------------------------------------------------------------------
(* Reference notions the claims are stated with *)

Returned == pc = "returned"
ReturnedPath == pc = "returned" /\ result.kind = "path"
ReturnedNoPath == pc = "returned" /\ result.kind = "nopath"

InGrid(cell) == cell \in Cells(esdf_map)
Clearance(cell) == esdf_map[cell[1] + 1][cell[2] + 1]

UnitOffsets == { << -1, 0 >>, << 1, 0 >>, << 0, -1 >>, << 0, 1 >> }
Adjacent(cell) ==
    { << cell[1] + o[1], cell[2] + o[2] >> : o \in UnitOffsets } \cap Cells(esdf_map)

\* The feasibility test applied to an in-grid cell under the current settings
Passes(cell) ==
    LET size == adjust_robot_size(Clearance(cell), MIN_WIDTH, MAX_WIDTH,
                                  MIN_LENGTH, MAX_LENGTH, MAX_ESDF)
    IN  is_collision_free(cell[1], cell[2], size[1], size[2], esdf_map)

\* No route has as many steps as the grid has cells
Unreachable == Cardinality(Cells(esdf_map))

\* Breadth-first layers from the start over cells that pass the test
RECURSIVE Flood(_, _, _)
Flood(frontier, seen, d) ==
    IF goal \in frontier THEN d
    ELSE LET next == { c \in UNION { Adjacent(b) : b \in frontier } :
                         c \notin seen /\ Passes(c) }
         IN  IF next = {} THEN Unreachable
             ELSE Flood(next, seen \cup next, d + 1)

\* Least number of unit steps from start to goal over routes whose cells
\* after the start all pass the test, or Unreachable
MinSteps == Flood({start}, {start}, 0)

Abs(n) == IF n < 0 THEN 0 - n ELSE n
Manhattan(a, b) == Abs(a[1] - b[1]) + Abs(a[2] - b[2])

----------------------------------------------------------------------------
(* C1: a returned path costs (cells minus one, the g of the popped goal    *)
(* node) exactly the least number of unit steps over feasible 4-connected  *)
(* routes; on the shipped map from (0,0) to (4,6) it has 11 cells.         *)
C1_Optimality ==
    /\ ReturnedPath =>
          /\ Len(result.path) - 1 = nodes[current_node].g
          /\ nodes[current_node].g = MinSteps
    /\ (Returned /\ esdf_map = shipped_map
          /\ start = << 0, 0 >> /\ goal = << 4, 6 >>) =>
          /\ result.kind = "path"
          /\ Len(result.path) = 11

\* A path was returned that is longer than the straight Manhattan route
C1_Witness ==
    /\ ReturnedPath
    /\ Len(result.path) - 1 > Manhattan(start, goal)

(* C2: with in-bounds start and goal astar never raises; it returns the    *)
(* no-path outcome exactly when the frontier emptied without the goal      *)
(* being popped, which is exactly when no feasible 4-connected route       *)
(* exists; a start all of whose neighbours fail the test yields no-path.   *)
C2_NoPathDetection ==
    /\ pc # "raised"
    /\ Returned =>
          /\ result.kind \in {"path", "nopath"}
          /\ (result.kind = "nopath") <=>
                (open_list = << >>
                   /\ << nodes[current_node].x, nodes[current_node].y >> # goal)
          /\ (result.kind = "nopath") <=> (MinSteps = Unreachable)
          /\ result.kind = "nopath" => result.path = << >>
          /\ (start # goal /\ \A c \in Adjacent(start) : ~Passes(c)) =>
                result.kind = "nopath"

\* No-path was returned for a goal that itself passes the test, from a start
\* that has neighbours, all of them failing it
C2_Witness ==
    /\ ReturnedNoPath
    /\ start # goal
    /\ Passes(goal)
    /\ Adjacent(start) # {}
    /\ \A c \in Adjacent(start) : ~Passes(c)

(* C3: every cell of a returned path other than the start has clearance    *)
(* >= max(width/2, length/2) of the footprint recorded for it.             *)
C3_Feasibility ==
    ReturnedPath =>
        \A i \in 1..Len(result.path) :
            LET cell == result.path[i]
            IN  cell # start =>
                  /\ cell \in DOMAIN node_sizes
                  /\ FLeq(FHalf(node_sizes[cell][1]), Frac(Clearance(cell)))
                  /\ FLeq(FHalf(node_sizes[cell][2]), Frac(Clearance(cell)))

\* A path of at least three cells was returned on a grid that has a cell
\* failing the test next to the path
C3_Witness ==
    /\ ReturnedPath
    /\ Len(result.path) >= 3
    /\ \E i \in 1..Len(result.path) :
          \E c \in Adjacent(result.path[i]) : ~Passes(c)

(* C4: consecutive cells of a returned path differ by exactly one of the   *)
(* four unit offsets.                                                      *)
C4_Continuity ==
    ReturnedPath =>
        \A i \in 1..(Len(result.path) - 1) :
            << result.path[i + 1][1] - result.path[i][1],
               result.path[i + 1][2] - result.path[i][2] >> \in UnitOffsets

\* A returned path that turns: it uses a row step and a column step
C4_Witness ==
    /\ ReturnedPath
    /\ \E i, j \in 1..(Len(result.path) - 1) :
          /\ result.path[i + 1][1] # result.path[i][1]
          /\ result.path[j + 1][2] # result.path[j][2]

(* C5: when start = goal the search returns the one-cell path <<start>>    *)
(* with a terminal node of g = 0, whatever the clearance there, and no     *)
(* neighbour is ever expanded.                                             *)
C5_Reflexivity ==
    start = goal =>
        /\ pc \notin {"expand", "raised"}
        /\ Returned =>
              /\ result = [kind |-> "path", path |-> << start >>]
              /\ nodes[current_node].g = 0
              /\ Len(nodes) = 1
              /\ closed_list = {}

\* start = goal returned at a cell that itself fails the feasibility test
C5_Witness ==
    /\ Returned
    /\ start = goal
    /\ ~Passes(start)

(* C6: when start or goal lies outside the grid, astar fails fast with an   *)
(* out-of-bounds error before searching: no search step is taken and no    *)
(* path or no-path outcome is returned.                                    *)
C6_OutOfBoundsFailsFast ==
    (~InGrid(start) \/ ~InGrid(goal)) =>
        /\ pc \in {"call", "raised"}
        /\ pc = "raised" => result.kind = "IndexError"

(* C7: when MAX_ESDF is 0, or MIN_WIDTH > MAX_WIDTH, or MIN_LENGTH >        *)
(* MAX_LENGTH, the program fails with an InvalidConfiguration error before *)
(* the search starts, rather than dividing by zero or searching.           *)
C7_InvalidConfigurationFailsFast ==
    (MAX_ESDF = 0 \/ MIN_WIDTH > MAX_WIDTH \/ MIN_LENGTH > MAX_LENGTH) =>
        /\ pc \in {"call", "raised"}
        /\ pc = "raised" => result.kind = "InvalidConfiguration"

\* The footprint of the formula for clearance c with maximum clearance M
FormulaWidth(c, M) ==
    << MIN_WIDTH * M + (M - c) * (MAX_WIDTH - MIN_WIDTH), M >>
FormulaLength(c, M) ==
    << MIN_LENGTH * M + c * (MAX_LENGTH - MIN_LENGTH), M >>

(* C8: at every point of a search the footprint recorded for a cell with   *)
(* clearance c is (MIN_WIDTH + (1 - c/M)(MAX_WIDTH - MIN_WIDTH),            *)
(* MIN_LENGTH + (c/M)(MAX_LENGTH - MIN_LENGTH)) with M the maximum          *)
(* clearance of the grid being searched.                                   *)
C8_FootprintFormula ==
    (InGrid(start) /\ GridMax(esdf_map) > 0) =>
        \A cell \in DOMAIN node_sizes :
            LET c == Clearance(cell)
                M == GridMax(esdf_map)
            IN  /\ FEq(node_sizes[cell][1], FormulaWidth(c, M))
                /\ FEq(node_sizes[cell][2], FormulaLength(c, M))

(* C8, second half: a footprint recorded for a cell never changes.         *)
C8_FootprintStable ==
    [][\A cell \in DOMAIN node_sizes :
          /\ cell \in DOMAIN node_sizes'
          /\ node_sizes'[cell] = node_sizes[cell]]_vars

(* C9: with MIN <= MAX for both pairs and a non-negative grid, every       *)
(* footprint recorded in node_sizes has MIN_WIDTH <= width <= MAX_WIDTH    *)
(* and MIN_LENGTH <= length <= MAX_LENGTH.                                 *)
C9_FootprintWithinBounds ==
    (/\ MIN_WIDTH <= MAX_WIDTH /\ MIN_LENGTH <= MAX_LENGTH
     /\ \A cell \in Cells(esdf_map) : Clearance(cell) >= 0
     /\ InGrid(start) /\ InGrid(goal)) =>
        \A cell \in DOMAIN node_sizes :
            /\ FLeq(Frac(MIN_WIDTH), node_sizes[cell][1])
            /\ FLeq(node_sizes[cell][1], Frac(MAX_WIDTH))
            /\ FLeq(Frac(MIN_LENGTH), node_sizes[cell][2])
            /\ FLeq(node_sizes[cell][2], Frac(MAX_LENGTH))

----------------------------------------------------------------------------
\* The cells of the nodes held in the frontier
FrontierCells ==
    { << nodes[open_list[i]].x, nodes[open_list[i]].y >> : i \in 1..Len(open_list) }

(* C11: a returned path begins at start, ends at goal, and every cell on   *)
(* it has an entry in node_sizes, so pairing cells with footprints cannot  *)
(* fail.                                                                   *)
C11_PathComplete ==
    ReturnedPath =>
        /\ Len(result.path) >= 1
        /\ result.path[1] = start
        /\ result.path[Len(result.path)] = goal
        /\ \A i \in 1..Len(result.path) : result.path[i] \in DOMAIN node_sizes

\* A path of several cells was returned, so start and goal are distinct ends
C11_Witness ==
    /\ ReturnedPath
    /\ Len(result.path) >= 3
    /\ start # goal

(* C12: with an in-bounds start, every cell in the frontier, in the closed *)
(* set or a key of node_sizes lies within [0, rows) x [0, cols).           *)
C12_InBounds ==
    InGrid(start) =>
        /\ FrontierCells \subseteq Cells(esdf_map)
        /\ closed_list \subseteq Cells(esdf_map)
        /\ DOMAIN node_sizes \subseteq Cells(esdf_map)

\* A node at the last row and column is being expanded, with the frontier,
\* the closed set and node_sizes all holding other cells too
C12_Witness ==
    /\ pc = "expand"
    /\ nodes[current_node].x = Len(esdf_map) - 1
    /\ nodes[current_node].y = Len(esdf_map[1]) - 1
    /\ Cardinality(closed_list) >= 2
    /\ open_list # << >>
    /\ Cardinality(DOMAIN node_sizes) >= 3

\* astar has been called and has not returned or raised
Running == pc \in {"call", "loop", "expand"}

\* The cell of the frontier node at heap position i
FrontierCell(i) == << nodes[open_list[i]].x, nodes[open_list[i]].y >>

\* The frontier node at position i is the cheapest node of its cell in the
\* frontier (the first of them on equal g) and its cell is not closed
Cheapest(i) ==
    /\ FrontierCell(i) \notin closed_list
    /\ \A j \in 1..Len(open_list) :
          FrontierCell(j) = FrontierCell(i) =>
              \/ nodes[open_list[i]].g < nodes[open_list[j]].g
              \/ nodes[open_list[i]].g = nodes[open_list[j]].g /\ i <= j

\* How many more nodes the frontier can still take for the cells of its
\* first k positions: for each such cell that is not closed, the least g
\* among its frontier nodes (a node is only inserted below it)
RECURSIVE FrontierBudget(_)
FrontierBudget(k) ==
    IF k = 0 THEN 0
    ELSE (IF Cheapest(k) THEN nodes[open_list[k]].g ELSE 0)
           + FrontierBudget(k - 1)

\* A natural number that every step of astar lowers: a cell neither closed
\* nor in the frontier can still take as many nodes as there are cells
Rank ==
    LET cells  == Cardinality(Cells(esdf_map))
        seen   == Cardinality(closed_list \cup FrontierCells)
        budget == cells * (cells - seen) + FrontierBudget(Len(open_list))
        work   == 2 * budget + Len(open_list)
    IN  CASE pc = "call"   -> 6 * (2 * cells * cells + 1) + 2
          [] pc = "loop"   -> 6 * work + 1
          [] pc = "expand" -> 6 * work + 1 + (Len(directions) + 1 - dir)
          [] OTHER         -> 0

(* C13: for every grid and in-bounds start and goal the loop reaches a      *)
(* terminal outcome (goal popped or frontier empty) after finitely many    *)
(* pops; the frontier cannot be refilled forever: until astar returns a    *)
(* step is always possible, and every step lowers the natural number Rank. *)
C13_Termination ==
    /\ [](Running => Rank >= 0)
    /\ [](Running => \/ pc = "loop" /\ open_list # << >>
                     \/ ENABLED (Begin \/ Neighbor \/ Exhausted))
    /\ [][Running => Rank' < Rank]_vars

\* A search ended with the frontier emptied, after at least three cells
\* were closed and more nodes were created than cells closed
C13_Witness ==
    /\ ReturnedNoPath
    /\ Cardinality(closed_list) >= 3
    /\ Len(nodes) > Cardinality(closed_list)

\* The cell of the node astar holds as current_node
CurrentCell == << nodes[current_node].x, nodes[current_node].y >>

(* C14: once a cell has been popped and added to the closed set, no later  *)
(* pop expands it again: every pop that goes on to generate neighbours     *)
(* pops a node whose cell was not in the closed set.                       *)
C14_NoReExpansion ==
    [][(pc = "loop" /\ pc' = "expand") => CurrentCell' \notin closed_list]_vars


\* Breadth-first layers from the start, as Flood, up to a given cell
RECURSIVE FloodTo(_, _, _, _)
FloodTo(cell, frontier, seen, d) ==
    IF cell \in frontier THEN d
    ELSE LET next == { c \in UNION { Adjacent(b) : b \in frontier } :
                         c \notin seen /\ Passes(c) }
         IN  IF next = {} THEN Unreachable
             ELSE FloodTo(cell, next, seen \cup next, d + 1)

\* Least number of unit steps from start to a cell over routes whose cells
\* after the start all pass the test, or Unreachable
StepsTo(cell) == FloodTo(cell, {start}, {start}, 0)

\* A pop that closes a cell not closed before
FirstPop == pc = "loop" /\ pc' = "expand" /\ CurrentCell' \notin closed_list

(* C15: at the moment a cell is first popped and added to the closed set,  *)
(* the g of the popped node equals the minimum number of unit steps from   *)
(* start to that cell over feasible 4-connected routes.                    *)
C15_FinalizedCost ==
    [][FirstPop => nodes'[current_node'].g = StepsTo(CurrentCell')]_vars

\* A cell has been closed whose node lies further from the start than the
\* straight Manhattan route, while a costlier node of another cell waits
C15_Witness ==
    /\ pc = "expand"
    /\ nodes[current_node].g > Manhattan(start, CurrentCell)
    /\ Cardinality(closed_list) >= 4
    /\ \E i \in 1..Len(open_list) : nodes[open_list[i]].g > nodes[current_node].g

\* The cell the pass of the direction loop about to run looks at
Candidate ==
    << CurrentCell[1] + directions[dir][1], CurrentCell[2] + directions[dir][2] >>

\* The f the candidate's node gets
CandidateF == [g |-> nodes[current_node].g + 1, h |-> heuristic(Candidate, goal)]

\* Some frontier node has the candidate's cell and an f <= the candidate's
NoWorseHeld ==
    \E i \in 1..Len(open_list) :
        /\ FrontierCell(i) = Candidate
        /\ ~FLess(CandidateF, nodes[open_list[i]].f)

\* The step created a node for the candidate and put it in the frontier
Inserted ==
    /\ Len(nodes') = Len(nodes) + 1
    /\ Len(open_list') = Len(open_list) + 1
    /\ \E i \in 1..Len(open_list') : open_list'[i] = Len(nodes')
    /\ << nodes'[Len(nodes')].x, nodes'[Len(nodes')].y >> = Candidate
    /\ nodes'[Len(nodes')].f = CandidateF

(* C16: a feasible, non-closed neighbour candidate is inserted into the    *)
(* frontier exactly when no node in the frontier has the same cell and an  *)
(* f <= the candidate's f; so two frontier entries of the same cell that   *)
(* coexist have different g, the later-inserted one the strictly smaller.  *)
C16_InsertionRule ==
    /\ [][(/\ pc = "expand"
           /\ InGrid(Candidate)
           /\ Candidate \notin closed_list
           /\ Passes(Candidate))
          => (Inserted <=> ~NoWorseHeld)]_vars
    /\ [](\A i, j \in 1..Len(open_list) :
            (i # j /\ FrontierCell(i) = FrontierCell(j)) =>
                /\ nodes[open_list[i]].g # nodes[open_list[j]].g
                /\ (open_list[i] > open_list[j] =>
                      nodes[open_list[i]].g < nodes[open_list[j]].g))

\* Two nodes of one cell are in the frontier together
C16_Witness ==
    \E i, j \in 1..Len(open_list) :
        /\ FrontierCell(i) = FrontierCell(j)
        /\ open_list[i] > open_list[j]
        /\ nodes[open_list[i]].g < nodes[open_list[j]].g

\* The nodes met from node n by following parent references, n first; fuel
\* bounds the walk by the number of nodes
RECURSIVE Chain(_, _)
Chain(n, fuel) ==
    IF n = None \/ fuel = 0 THEN << >>
    ELSE << n >> \o Chain(nodes[n].parent, fuel - 1)

\* No two positions of a sequence of cells hold the same cell
NoRepeat(cells) ==
    \A i, j \in 1..Len(cells) : i # j => cells[i] # cells[j]

(* C17: for every node created, following parent references reaches the   *)
(* start node (parent None) in exactly g steps, g decreases by exactly 1   *)
(* at each step, and no cell occurs twice on the chain; a returned path    *)
(* never visits a cell twice and has g(goal)+1 cells.                      *)
C17_SimpleChains ==
    /\ \A n \in 1..Len(nodes) :
          LET chain == Chain(n, Len(nodes) + 1)
              last  == chain[Len(chain)]
          IN  /\ Len(chain) = nodes[n].g + 1
              /\ nodes[last].parent = None
              /\ << nodes[last].x, nodes[last].y >> = start
              /\ last = 1
              /\ \A k \in 1..(Len(chain) - 1) :
                    nodes[chain[k + 1]].g = nodes[chain[k]].g - 1
              /\ NoRepeat([ k \in 1..Len(chain) |->
                              << nodes[chain[k]].x, nodes[chain[k]].y >> ])
    /\ ReturnedPath =>
          /\ NoRepeat(result.path)
          /\ Len(result.path) = nodes[current_node].g + 1

\* A path of at least four cells was returned while some other node's chain
\* to the start is at least as long
C17_Witness ==
    /\ ReturnedPath
    /\ Len(result.path) >= 4
    /\ \E n \in 1..Len(nodes) :
          n # current_node /\ nodes[n].g >= nodes[current_node].g

\* The footprint astar computes for the clearance of an in-grid cell
FootprintAt(cell) ==
    adjust_robot_size(Clearance(cell), MIN_WIDTH, MAX_WIDTH, MIN_LENGTH,
                      MAX_LENGTH, MAX_ESDF)

(* C18: the start cell's footprint is computed and recorded but the start  *)
(* is never feasibility-checked: for an in-bounds start whose clearance is *)
(* below max(width/2, length/2) the search still runs and, when the goal   *)
(* is reachable through feasible cells, returns a path beginning at start. *)
C18_StartExemption ==
    /\ (InGrid(start) /\ pc \in {"loop", "expand", "returned"}) =>
          /\ start \in DOMAIN node_sizes
          /\ node_sizes[start] = FootprintAt(start)
          /\ Len(nodes) >= 1
          /\ << nodes[1].x, nodes[1].y >> = start
    /\ (InGrid(start) /\ ~Passes(start) /\ Returned /\ MinSteps # Unreachable) =>
          /\ result.kind = "path"
          /\ result.path[1] = start
          /\ result.path[Len(result.path)] = goal

\* A path of at least three cells was returned from a start that fails the
\* feasibility test
C18_Witness ==
    /\ ReturnedPath
    /\ ~Passes(start)
    /\ Len(result.path) >= 3
    /\ result.path[1] = start

\* The publishing loop has been entered
Spinning == pc \in {"spin", "shutdown"}

\* The message lines 130-146 assemble from a returned path
MessageOf(path) ==
    [states |-> [ i \in 1..Len(path) |-> RobotState(path[i], node_sizes, 0) ]]

C19_SameMessage ==
    /\ (Spinning /\ result.kind = "nopath") =>
          \E i \in 1..Len(log) : log[i].text = "NO PATH FOUNDED"
    /\ (Spinning /\ result.kind = "path") =>
          /\ robot_path = MessageOf(result.path)
          /\ \A i \in 1..Len(published) : published[i] = robot_path
          /\ \A i \in 1..Len(log) : log[i].text # "NO PATH FOUNDED"

============================================================================
